---------------------------- MODULE Spec2Model ----------------------------
(***************************************************************************)
(* Model of 1.make_shinjuku_3d_geojson.py: the batch conversion of 2D      *)
(* indoor-map shapefiles into 3D GeoJSON.                                  *)
(*                                                                         *)
(*   - strings are sequences of one-character strings, so that a regular   *)
(*     expression search, a suffix removal and a path comparison are       *)
(*     computed character by character;                                    *)
(*   - elevations are integers in tenths of a metre (40.6 m is 406);       *)
(*   - a geometry is a record [kind, coords, rings, geoms]; a coordinate   *)
(*     is a tuple <<x, y>> or <<x, y, z>>.                                 *)
(*                                                                         *)
(* Three specifications: SpecFloor applies infer_floor_label (and the      *)
(* elevation lookup of process_shp) to a file name, SpecGeom applies       *)
(* add_z_to_geom to a geometry, Spec runs main over an input directory.    *)
(***************************************************************************)
EXTENDS Integers, Sequences, FiniteSets, TLC

VARIABLES
    pc,         \* position of the running program
    filename,   \* SpecFloor: the argument of infer_floor_label
    label,      \* SpecFloor: what infer_floor_label returned
    floor,      \* SpecFloor: the label after the FLOOR_OFFSETS check
    z_abs,      \* SpecFloor: BASE_Z + FLOOR_OFFSETS[floor]
    geom,       \* SpecGeom: the geometry argument of add_z_to_geom
    z,          \* SpecGeom: the elevation argument of add_z_to_geom
    ret,        \* SpecGeom: what add_z_to_geom returned (or Raised)
    input,      \* Spec: the .shp files under INPUT_DIR, path -> content
    outdir,     \* Spec: OUTPUT_DIR, [exists, files: name -> content]
    outdir0,    \* Spec: OUTPUT_DIR as it was when main started
    todo,       \* Spec: the files the for loop of main has not reached yet
    attempts,   \* Spec: the files process_shp was called on, in call order
    writer,     \* Spec: output name -> the input whose run opened it last
    log,        \* Spec: the lines printed so far
    exitCode    \* Spec: the exit status, -1 while main runs

vars == <<pc, filename, label, floor, z_abs, geom, z, ret, input, outdir,
          outdir0, todo, attempts, writer, log, exitCode>>

floorVars == <<filename, label, floor, z_abs>>
geomVars  == <<geom, z, ret>>
mainVars  == <<input, outdir, outdir0, todo, attempts, writer, log, exitCode>>

---------------------------------------------------------------------------
(* Bounds of the model *)

\* pieces a file name of SpecFloor is put together from
MaxPieces == 2
\* members of a Multi* geometry or of a GeometryCollection
MaxParts == 2
\* interior rings of a polygon
MaxHoles == 1
\* GeometryCollections nested inside a GeometryCollection
MaxDepth == 1
\* .shp files under INPUT_DIR
MaxFiles == 2

---------------------------------------------------------------------------
(* Characters and strings *)

\* The characters of the model in code point order: '.', digits, upper case,
\* '_', lower case.
Chars ==
    << ".", "0", "1", "2", "3", "4",
       "A", "B", "O", "P", "S", "T", "U",
       "_",
       "a", "b", "d", "e", "g", "h", "i", "j", "k", "l", "m", "n", "o",
       "p", "r", "s", "t", "u", "x" >>

\* ord(c), up to an order-preserving renumbering
Ord(c) == CHOOSE i \in 1..Len(Chars) : Chars[i] = c

\* str.lower() of one character (what re.I compares)
Lower(c) ==
    CASE c = "A" -> "a" [] c = "B" -> "b" [] c = "O" -> "o" [] c = "P" -> "p"
      [] c = "S" -> "s" [] c = "T" -> "t" [] c = "U" -> "u"
      [] OTHER -> c

\* s < t for two str values
RECURSIVE StrLess(_, _)
StrLess(s, t) ==
    IF t = <<>> THEN FALSE
    ELSE IF s = <<>> THEN TRUE
    ELSE IF Head(s) # Head(t) THEN Ord(Head(s)) < Ord(Head(t))
    ELSE StrLess(Tail(s), Tail(t))

---------------------------------------------------------------------------
(* Configuration tables *)

BASE_Z == 406

FLOOR_OFFSETS ==
    ("B3" :> -630) @@ ("B2" :> -420) @@ ("B1" :> -210) @@ ("0F" :> 0) @@
    ("1F" :> 240) @@ ("2F" :> 480) @@ ("2out" :> 480) @@
    ("3F" :> 720) @@ ("3out" :> 720) @@ ("4F" :> 960) @@ ("4out" :> 960)

\* re.compile(r"<lit>[_\.]", re.I): the literal characters, then one
\* character of the class
Pattern(lit, lbl) == [lit |-> lit, cls |-> {"_", "."}, label |-> lbl]

\* the same table with the generic digits listed before their "out" forms
PATTERNS_generic_first ==
    << Pattern(<<"_", "b", "3">>, "B3"),
       Pattern(<<"_", "b", "2">>, "B2"),
       Pattern(<<"_", "b", "1">>, "B1"),
       Pattern(<<"_", "0">>, "0F"),
       Pattern(<<"_", "1">>, "1F"),
       Pattern(<<"_", "2">>, "2F"),
       Pattern(<<"_", "3">>, "3F"),
       Pattern(<<"_", "4">>, "4F"),
       Pattern(<<"_", "2", "o", "u", "t">>, "2out"),
       Pattern(<<"_", "3", "o", "u", "t">>, "3out"),
       Pattern(<<"_", "4", "o", "u", "t">>, "4out") >>

PATTERNS ==
    << Pattern(<<"_", "b", "3">>, "B3"),
       Pattern(<<"_", "b", "2">>, "B2"),
       Pattern(<<"_", "b", "1">>, "B1"),
       Pattern(<<"_", "0">>, "0F"),
       Pattern(<<"_", "1">>, "1F"),
       Pattern(<<"_", "2", "o", "u", "t">>, "2out"),
       Pattern(<<"_", "3", "o", "u", "t">>, "3out"),
       Pattern(<<"_", "4", "o", "u", "t">>, "4out"),
       Pattern(<<"_", "2">>, "2F"),
       Pattern(<<"_", "3">>, "3F"),
       Pattern(<<"_", "4">>, "4F") >>

---------------------------------------------------------------------------
(* infer_floor_label *)

\* the pattern matches s at position i: its literal, compared ignoring
\* case, then one character of its class
MatchAt(pat, s, i) ==
    /\ i + Len(pat.lit) <= Len(s)
    /\ \A k \in 1..Len(pat.lit) : Lower(s[i + k - 1]) = Lower(pat.lit[k])
    /\ s[i + Len(pat.lit)] \in pat.cls

\* pat.search(s): a match at some position
Search(pat, s) == \E i \in 1..Len(s) : MatchAt(pat, s, i)

\* the for loop of infer_floor_label from table index i on
RECURSIVE InferFrom(_, _)
InferFrom(name, i) ==
    IF i > Len(PATTERNS) THEN "0F"
    ELSE IF Search(PATTERNS[i], name) THEN PATTERNS[i].label
    ELSE InferFrom(name, i + 1)

\* a loop that keeps the last matching pattern instead of returning at the
\* first
RECURSIVE InferLast(_, _, _)
InferLast(name, i, acc) ==
    IF i > Len(PATTERNS) THEN acc
    ELSE InferLast(name, i + 1,
                   IF Search(PATTERNS[i], name) THEN PATTERNS[i].label
                   ELSE acc)

infer_floor_label_last_match(name) == InferLast(name, 1, "0F")

infer_floor_label(name) == InferFrom(name, 1)

\* process_shp, the label check and the elevation lookup
ResolveFloor_no_offset(name) ==
    [label |-> infer_floor_label(name), warned |-> FALSE, z_abs |-> BASE_Z]

ResolveFloor(name) ==
    LET inferred == infer_floor_label(name)
        known    == inferred \in DOMAIN FLOOR_OFFSETS
        lbl      == IF known THEN inferred ELSE "0F"
    IN  [label |-> lbl, warned |-> ~known, z_abs |-> BASE_Z + FLOOR_OFFSETS[lbl]]


---------------------------------------------------------------------------
(* SpecFloor: infer_floor_label and the elevation lookup on a file name *)

RECURSIVE Flatten(_)
Flatten(ss) == IF ss = <<>> THEN <<>> ELSE Head(ss) \o Flatten(Tail(ss))

\* what a file name of SpecFloor is put together from
Pieces ==
    { <<"_", "b", "3">>, <<"_", "B", "2">>, <<"_", "b", "1">>, <<"_", "B", "1">>,
      <<"_", "0">>, <<"_", "1">>,
      <<"_", "2", "o", "u", "t">>, <<"_", "2", "O", "U", "T">>,
      <<"_", "3", "o", "u", "t">>, <<"_", "4", "o", "u", "t">>,
      <<"_", "2">>, <<"_", "3">>, <<"_", "4">>,
      <<"_", "x">>, <<"2">>, <<"o", "u", "t">> }

Endings == { <<".", "s", "h", "p">>, <<"_", "A", ".", "s", "h", "p">> }

PieceSeqs == UNION { [1..n -> Pieces] : n \in 0..MaxPieces }

FileNames == { <<"T">> \o Flatten(ps) \o e : ps \in PieceSeqs, e \in Endings }

NoGeom == [kind |-> "None", coords |-> <<>>, rings |-> <<>>, geoms |-> <<>>]

GeomIdle ==
    /\ geom = NoGeom /\ z = 0 /\ ret = NoGeom

MainIdle ==
    /\ input = <<>> /\ outdir = [exists |-> FALSE, files |-> <<>>]
    /\ outdir0 = outdir /\ todo = <<>> /\ attempts = <<>> /\ writer = <<>>
    /\ log = <<>> /\ exitCode = -1

InitFloor ==
    /\ pc = "call"
    /\ filename \in FileNames
    /\ label = "" /\ floor = "" /\ z_abs = 0
    /\ GeomIdle /\ MainIdle

\* process_shp up to the elevation: label = infer_floor_label(shp.name),
\* the check against FLOOR_OFFSETS, z_abs
CallInferFloorLabel ==
    /\ pc = "call"
    /\ label' = infer_floor_label(filename)
    /\ floor' = ResolveFloor(filename).label
    /\ z_abs' = ResolveFloor(filename).z_abs
    /\ pc' = "returned"
    /\ UNCHANGED <<filename, geomVars, mainVars>>

NextFloor == CallInferFloorLabel

SpecFloor == InitFloor /\ [][NextFloor]_vars

---------------------------------------------------------------------------
(* Claims about infer_floor_label (SpecFloor) *)

\* the floor tokens as the claims list them, each with its label
TokenTable ==
    << [tok |-> <<"_", "b", "3">>, label |-> "B3"],
       [tok |-> <<"_", "b", "2">>, label |-> "B2"],
       [tok |-> <<"_", "b", "1">>, label |-> "B1"],
       [tok |-> <<"_", "0">>, label |-> "0F"],
       [tok |-> <<"_", "1">>, label |-> "1F"],
       [tok |-> <<"_", "2", "o", "u", "t">>, label |-> "2out"],
       [tok |-> <<"_", "3", "o", "u", "t">>, label |-> "3out"],
       [tok |-> <<"_", "4", "o", "u", "t">>, label |-> "4out"],
       [tok |-> <<"_", "2">>, label |-> "2F"],
       [tok |-> <<"_", "3">>, label |-> "3F"],
       [tok |-> <<"_", "4">>, label |-> "4F"] >>

\* index of an "out" token -> index of its generic-digit counterpart
OutPairs == { <<6, 9>>, <<7, 10>>, <<8, 11>> }

LowerStr(s) == [i \in 1..Len(s) |-> Lower(s[i])]

\* the name holds token k followed by '_' or '.', in any letter case
ContainsToken(name, k) ==
    LET tok == TokenTable[k].tok
    IN  \E i \in 1..Len(name) :
            /\ i + Len(tok) <= Len(name)
            /\ SubSeq(LowerStr(name), i, i + Len(tok)) \in
                   { tok \o <<"_">>, tok \o <<".">> }

TokensIn(name) == { k \in 1..Len(TokenTable) : ContainsToken(name, k) }

Least(S) == CHOOSE m \in S : \A n \in S : m <= n

\* C1 as stated: a file name that contains a floor token gets the label of
\* that token whatever else it contains, and a name that contains an "out"
\* token and its generic-digit counterpart gets the "out" label.
C1_AnyTokenDecides ==
    pc = "returned" =>
        /\ \A k \in TokensIn(filename) : label = TokenTable[k].label
        /\ \A pr \in OutPairs :
               (pr[1] \in TokensIn(filename) /\ pr[2] \in TokensIn(filename))
                   => label = TokenTable[pr[1]].label

\* C1 amended: a file name that contains floor tokens gets the label of the
\* contained token that comes first in the table, whatever else it contains;
\* a name that contains an "out" token, its generic-digit counterpart and no
\* token listed before that "out" token gets the "out" label.
C1_FirstTokenDecides ==
    pc = "returned" =>
        /\ TokensIn(filename) # {} =>
               label = TokenTable[Least(TokensIn(filename))].label
        /\ \A pr \in OutPairs :
               ( /\ pr[1] \in TokensIn(filename)
                 /\ pr[2] \in TokensIn(filename)
                 /\ \A k \in TokensIn(filename) : pr[1] <= k )
                   => label = TokenTable[pr[1]].label

\* a name with "_2out" (in upper case) and "_2" has been resolved to "2out"
C1_Witness ==
    /\ pc = "returned"
    /\ 6 \in TokensIn(filename) /\ 9 \in TokensIn(filename)
    /\ \E i \in 1..Len(filename) : filename[i] = "O"
    /\ label = "2out"

MatchingPatterns(name) == { i \in 1..Len(PATTERNS) : Search(PATTERNS[i], name) }

\* C2 as stated: the label is that of the lowest-index matching pattern, and
\* it is "0F" exactly when no pattern matches; a name no pattern matches is
\* given floor "0F" and elevation BASE_Z + 0.
C2_DefaultExactlyWhenNoMatch ==
    pc = "returned" =>
        /\ MatchingPatterns(filename) # {} =>
               label = PATTERNS[Least(MatchingPatterns(filename))].label
        /\ (label = "0F") <=> (MatchingPatterns(filename) = {})
        /\ MatchingPatterns(filename) = {} => (floor = "0F" /\ z_abs = BASE_Z + 0)

\* C2 amended: the label is that of the lowest-index matching pattern; it is
\* "0F" when no pattern matches, and otherwise only when the lowest-index
\* matching pattern is the "_0" pattern (index 4); a name no pattern matches
\* is given floor "0F" and elevation BASE_Z + 0.
C2_FirstMatchWins ==
    pc = "returned" =>
        /\ MatchingPatterns(filename) # {} =>
               label = PATTERNS[Least(MatchingPatterns(filename))].label
        /\ MatchingPatterns(filename) = {} => label = "0F"
        /\ label = "0F" =>
               \/ MatchingPatterns(filename) = {}
               \/ Least(MatchingPatterns(filename)) = 4
        /\ MatchingPatterns(filename) = {} => (floor = "0F" /\ z_abs = BASE_Z + 0)

\* a name no pattern matches has been resolved, to "0F" at BASE_Z
C2_Witness ==
    /\ pc = "returned"
    /\ MatchingPatterns(filename) = {}
    /\ label = "0F" /\ floor = "0F" /\ z_abs = BASE_Z

---------------------------------------------------------------------------
(* Geometries (shapely) *)

Geom(k, cs, rs, gs) == [kind |-> k, coords |-> cs, rings |-> rs, geoms |-> gs]

\* what a call that raised leaves in place of a return value (ValueError:
\* too many values to unpack)
Raised == Geom("Raised", <<>>, <<>>, <<>>)

\* Point(x, y, z), or Point(x, y) from a two-component coordinate
Point(c) == Geom("Point", <<c>>, <<>>, <<>>)

\* LineString(coordinates)
LineString(cs) == Geom("LineString", cs, <<>>, <<>>)

\* a LinearRing added to a Polygon is closed when it is not
CloseRing(r) == IF r # <<>> /\ r[1] # r[Len(r)] THEN Append(r, r[1]) ELSE r

\* Polygon(shell, holes)
Polygon(ext, ints) ==
    Geom("Polygon", <<>>,
         <<CloseRing(ext)>> \o [i \in 1..Len(ints) |-> CloseRing(ints[i])], <<>>)

\* MultiPoint(points), MultiLineString(lines), MultiPolygon(polygons),
\* GeometryCollection(geometries)
Multi(k, gs) == Geom(k, <<>>, <<>>, gs)

Dispatched ==
    { "Point", "MultiPoint", "LineString", "MultiLineString", "Polygon",
      "MultiPolygon", "GeometryCollection" }

\* geom.is_empty
RECURSIVE is_empty(_)
is_empty(g) ==
    CASE g.kind \in {"Point", "LineString", "LinearRing"} -> g.coords = <<>>
      [] g.kind = "Polygon" -> g.rings = <<>>
      [] g.kind \in {"MultiPoint", "MultiLineString", "MultiPolygon",
                     "GeometryCollection"} ->
             \A i \in 1..Len(g.geoms) : is_empty(g.geoms[i])
      [] OTHER -> FALSE

\* "for x, y in coords" raises ValueError on a coordinate that does not have
\* exactly two components
UnpackRaises(cs) == \E i \in 1..Len(cs) : Len(cs[i]) # 2

\* the comprehension with the elevation of the first vertex left at 0
WithZ_first_vertex_flat(cs, z0) ==
    [i \in 1..Len(cs) |-> <<cs[i][1], cs[i][2], IF i = 1 /\ Len(cs) > 1 THEN 0 ELSE z0>>]

\* [(x, y, z) for x, y in coords]
WithZ(cs, z0) == [i \in 1..Len(cs) |-> <<cs[i][1], cs[i][2], z0>>]

\* Point(p.x, p.y, z): x and y of a point of either dimension
PointWithZ(p, z0) == Point(<<p.coords[1][1], p.coords[1][2], z0>>)

\* LineString([(x, y, z) for x, y in ls.coords])
LineWithZ(ls, z0) ==
    IF UnpackRaises(ls.coords) THEN Raised ELSE LineString(WithZ(ls.coords, z0))

\* ext, ints and Polygon(ext, ints) of one polygon
PolygonWithZ(p, z0) ==
    IF \E r \in 1..Len(p.rings) : UnpackRaises(p.rings[r]) THEN Raised
    ELSE Polygon(WithZ(p.rings[1], z0),
                 [r \in 1..(Len(p.rings) - 1) |-> WithZ(p.rings[r + 1], z0)])

\* a list comprehension over the members: it raises when one member does
MembersOrRaised(k, gs) ==
    IF \E i \in 1..Len(gs) : gs[i] = Raised THEN Raised ELSE Multi(k, gs)

RECURSIVE add_z_to_geom(_, _)

\* GeometryCollection([add_z_to_geom(g, z) for g in geom.geoms])
CollectionWithZ(g, z0) ==
    MembersOrRaised("GeometryCollection",
                    [i \in 1..Len(g.geoms) |-> add_z_to_geom(g.geoms[i], z0)])

add_z_to_geom(g, z0) ==
    IF g.kind = "None" \/ is_empty(g) THEN g
    ELSE CASE g.kind = "Point" -> PointWithZ(g, z0)
           [] g.kind = "MultiPoint" ->
                  Multi("MultiPoint",
                        [i \in 1..Len(g.geoms) |-> PointWithZ(g.geoms[i], z0)])
           [] g.kind = "LineString" -> LineWithZ(g, z0)
           [] g.kind = "MultiLineString" ->
                  MembersOrRaised("MultiLineString",
                        [i \in 1..Len(g.geoms) |-> LineWithZ(g.geoms[i], z0)])
           [] g.kind = "Polygon" -> PolygonWithZ(g, z0)
           [] g.kind = "MultiPolygon" ->
                  MembersOrRaised("MultiPolygon",
                        [i \in 1..Len(g.geoms) |-> PolygonWithZ(g.geoms[i], z0)])
           [] g.kind = "GeometryCollection" ->
                  CollectionWithZ(g, z0)
           [] OTHER -> g

---------------------------------------------------------------------------
(* SpecGeom: add_z_to_geom on a geometry *)

SeqsUpTo(S, lo, hi) == UNION { [1..n -> S] : n \in lo..hi }

\* a coordinate with a third component of its own, different per vertex
ToZ(c) == <<c[1], c[2], 5 + c[1]>>

\* the geometry with every coordinate given a third component
RECURSIVE Lift3D(_)
Lift3D(g) ==
    Geom(g.kind,
         [i \in 1..Len(g.coords) |-> ToZ(g.coords[i])],
         [r \in 1..Len(g.rings) |->
              [i \in 1..Len(g.rings[r]) |-> ToZ(g.rings[r][i])]],
         [i \in 1..Len(g.geoms) |-> Lift3D(g.geoms[i])])

Points2D == { Point(<<0, 0>>), Point(<<3, 1>>) }

Lines2D ==
    { LineString(<< <<0, 0>>, <<1, 0>> >>),
      LineString(<< <<0, 0>>, <<1, 1>>, <<2, 0>> >>) }

\* a counter-clockwise square and a clockwise triangle
Shells ==
    { << <<0, 0>>, <<4, 0>>, <<4, 4>>, <<0, 4>>, <<0, 0>> >>,
      << <<0, 0>>, <<0, 4>>, <<4, 0>>, <<0, 0>> >> }

Holes ==
    { << <<1, 1>>, <<1, 2>>, <<2, 1>>, <<1, 1>> >>,
      << <<1, 1>>, <<2, 1>>, <<2, 2>>, <<1, 2>>, <<1, 1>> >> }

Polygons2D ==
    { Geom("Polygon", <<>>, <<sh>> \o hs, <<>>) :
          sh \in Shells, hs \in SeqsUpTo(Holes, 0, MaxHoles) }

Multis2D ==
    { Multi("MultiPoint", gs) : gs \in SeqsUpTo(Points2D, 1, MaxParts) }
    \cup { Multi("MultiLineString", gs) : gs \in SeqsUpTo(Lines2D, 1, MaxParts) }
    \cup { Multi("MultiPolygon", gs) : gs \in SeqsUpTo(Polygons2D, 1, MaxParts) }

Empties ==
    { Geom("Point", <<>>, <<>>, <<>>), Geom("LineString", <<>>, <<>>, <<>>),
      Geom("Polygon", <<>>, <<>>, <<>>), Multi("MultiPoint", <<>>),
      Multi("MultiPolygon", <<>>) }

\* a kind add_z_to_geom does not dispatch on
Rings == { Geom("LinearRing", << <<0, 0>>, <<1, 0>>, <<0, 1>>, <<0, 0>> >>, <<>>, <<>>) }

\* what the members of a GeometryCollection are drawn from
MemberPool ==
    { Point(<<3, 1>>),
      LineString(<< <<0, 0>>, <<1, 1>>, <<2, 0>> >>),
      Geom("Polygon", <<>>,
           << << <<0, 0>>, <<4, 0>>, <<4, 4>>, <<0, 4>>, <<0, 0>> >>,
              << <<1, 1>>, <<1, 2>>, <<2, 1>>, <<1, 1>> >> >>, <<>>),
      Multi("MultiPoint", << Point(<<0, 0>>), Point(<<3, 1>>) >>),
      Geom("Point", <<>>, <<>>, <<>>),
      Lift3D(Point(<<3, 1>>)),
      Lift3D(LineString(<< <<0, 0>>, <<1, 0>> >>)) }
    \cup Rings

\* the GeometryCollections with at most d levels of collections inside
RECURSIVE Collections(_)
Collections(d) ==
    IF d = 0
    THEN { Multi("GeometryCollection", gs) : gs \in SeqsUpTo(MemberPool, 0, MaxParts) }
    ELSE LET inner == { c \in Collections(d - 1) : Len(c.geoms) <= 1 }
         IN  { Multi("GeometryCollection", gs) :
                   gs \in SeqsUpTo(MemberPool \cup inner, 0, MaxParts) }

Geometries ==
    LET planar == Points2D \cup Lines2D \cup Polygons2D \cup Multis2D
    IN  planar \cup { Lift3D(g) : g \in planar } \cup Empties \cup Rings
        \cup { Lift3D(g) : g \in Rings } \cup { NoGeom }
        \cup Collections(MaxDepth)

\* elevations of three floors
Elevations ==
    { BASE_Z + FLOOR_OFFSETS["B3"], BASE_Z + FLOOR_OFFSETS["0F"],
      BASE_Z + FLOOR_OFFSETS["2out"] }

InitGeom ==
    /\ pc = "call"
    /\ geom \in Geometries
    /\ z \in Elevations
    /\ ret = NoGeom
    /\ filename = <<>> /\ label = "" /\ floor = "" /\ z_abs = 0
    /\ MainIdle

CallAddZToGeom ==
    /\ pc = "call"
    /\ ret' = add_z_to_geom(geom, z)
    /\ pc' = "returned"
    /\ UNCHANGED <<geom, z, floorVars, mainVars>>

NextGeom == CallAddZToGeom

SpecGeom == InitGeom /\ [][NextGeom]_vars

---------------------------------------------------------------------------
(* Claims about add_z_to_geom (SpecGeom) *)

\* every coordinate of the geometry has n components
RECURSIVE AllCoordsOfLen(_, _)
AllCoordsOfLen(g, n) ==
    /\ \A i \in 1..Len(g.coords) : Len(g.coords[i]) = n
    /\ \A r \in 1..Len(g.rings) : \A i \in 1..Len(g.rings[r]) : Len(g.rings[r][i]) = n
    /\ \A i \in 1..Len(g.geoms) : AllCoordsOfLen(g.geoms[i], n)

\* one of the seven kinds, and so are the members, to any depth
RECURSIVE Supported(_)
Supported(g) ==
    /\ g.kind \in Dispatched
    /\ \A i \in 1..Len(g.geoms) : Supported(g.geoms[i])

\* vertex i of the list rs is vertex i of the list cs with third component z0
SameVertices(cs, rs, z0) ==
    /\ Len(rs) = Len(cs)
    /\ \A i \in 1..Len(cs) : rs[i] = <<cs[i][1], cs[i][2], z0>>

\* r has the kind, parts, rings and vertices of g, in the same order and with
\* the same x and y, and the third component of every coordinate of r is z0
RECURSIVE SameShapeAt(_, _, _)
SameShapeAt(g, r, z0) ==
    /\ r.kind = g.kind
    /\ SameVertices(g.coords, r.coords, z0)
    /\ Len(r.rings) = Len(g.rings)
    /\ \A k \in 1..Len(g.rings) : SameVertices(g.rings[k], r.rings[k], z0)
    /\ Len(r.geoms) = Len(g.geoms)
    /\ \A i \in 1..Len(g.geoms) : SameShapeAt(g.geoms[i], r.geoms[i], z0)

\* C3: a non-empty 2D geometry of a supported kind comes back with the same
\* kind, parts, rings and vertices in the same order, x and y unchanged, and
\* z as the third component of every coordinate.
C3_ShapeKeptElevationUniform ==
    (pc = "returned" /\ Supported(geom) /\ AllCoordsOfLen(geom, 2) /\ ~is_empty(geom))
        => (ret # Raised /\ SameShapeAt(geom, ret, z))

\* a 2D collection with a polygon that has a hole and a non-empty nested
\* collection has been elevated
C3_Witness ==
    /\ pc = "returned"
    /\ geom.kind = "GeometryCollection" /\ Supported(geom) /\ AllCoordsOfLen(geom, 2)
    /\ \E i \in 1..Len(geom.geoms) :
           geom.geoms[i].kind = "Polygon" /\ Len(geom.geoms[i].rings) = 2
    /\ \E i \in 1..Len(geom.geoms) :
           geom.geoms[i].kind = "GeometryCollection" /\ ~is_empty(geom.geoms[i])
    /\ ret # Raised /\ SameShapeAt(geom, ret, z)

\* C8: a non-empty geometry of a supported kind whose coordinates carry a
\* third component comes back, without an error, with that component
\* replaced by z.
C8_ThirdComponentReplaced ==
    (pc = "returned" /\ Supported(geom) /\ AllCoordsOfLen(geom, 3) /\ ~is_empty(geom))
        => (ret # Raised /\ SameShapeAt(geom, ret, z))

\* null, empty, or of a kind add_z_to_geom does not dispatch on
PassedThrough(g) == g.kind = "None" \/ is_empty(g) \/ g.kind \notin Dispatched

\* every coordinate of the geometry, pass-through members aside, has z0 as
\* its third component
RECURSIVE ElevatedTo(_, _)
ElevatedTo(g, z0) ==
    \/ PassedThrough(g)
    \/ /\ \A i \in 1..Len(g.coords) : Len(g.coords[i]) = 3 /\ g.coords[i][3] = z0
       /\ \A r \in 1..Len(g.rings) : \A i \in 1..Len(g.rings[r]) :
              Len(g.rings[r][i]) = 3 /\ g.rings[r][i][3] = z0
       /\ \A i \in 1..Len(g.geoms) : ElevatedTo(g.geoms[i], z0)

\* C9: a null or empty geometry, or one of a kind outside the seven, comes
\* back unchanged; so does such a member of a GeometryCollection, whose
\* other members come back elevated, in the same order and of the same kinds.
C9_PassThrough ==
    pc = "returned" =>
        /\ PassedThrough(geom) => ret = geom
        /\ (geom.kind = "GeometryCollection" /\ ~is_empty(geom)) =>
               /\ ret # Raised
               /\ ret.kind = "GeometryCollection"
               /\ Len(ret.geoms) = Len(geom.geoms)
               /\ \A i \in 1..Len(geom.geoms) :
                      IF PassedThrough(geom.geoms[i])
                      THEN ret.geoms[i] = geom.geoms[i]
                      ELSE /\ ret.geoms[i].kind = geom.geoms[i].kind
                           /\ ElevatedTo(ret.geoms[i], z)

\* the geometry has a LineString, MultiLineString, Polygon or MultiPolygon
\* with a coordinate of three components, at any depth
RECURSIVE HasLine3D(_)
HasLine3D(g) ==
    \/ /\ g.kind \in {"LineString", "MultiLineString", "Polygon", "MultiPolygon"}
       /\ ~AllCoordsOfLen(g, 2)
    \/ /\ g.kind = "GeometryCollection"
       /\ \E i \in 1..Len(g.geoms) : HasLine3D(g.geoms[i])

\* C9 where no line or polygon of the geometry carries a third component
\* (the case C8 is about): there C9_PassThrough holds.
C9_PassThroughWithoutLine3D ==
    HasLine3D(geom) \/ C9_PassThrough

---------------------------------------------------------------------------
(* Paths, input files and the output directory *)

\* p < q for two Path values: their parts compared as lists of str
RECURSIVE PathLess(_, _)
PathLess(p, q) ==
    IF q = <<>> THEN FALSE
    ELSE IF p = <<>> THEN TRUE
    ELSE IF Head(p) # Head(q) THEN StrLess(Head(p), Head(q))
    ELSE PathLess(Tail(p), Tail(q))

\* sorted(shps)
RECURSIVE SortPaths(_)
SortPaths(S) ==
    IF S = {} THEN <<>>
    ELSE LET m == CHOOSE x \in S : \A y \in S \ {x} : PathLess(x, y)
         IN  <<m>> \o SortPaths(S \ {m})

\* shp.name
PathName(shp) == shp[Len(shp)]

\* shp.with_suffix("").name: the name without its last suffix, which starts
\* at the last dot unless that dot is the first or the last character
StripSuffix(name) ==
    LET dots == { i \in 1..Len(name) : name[i] = "." }
        last == IF dots = {} THEN 0 ELSE CHOOSE i \in dots : \A j \in dots : j <= i
    IN  IF 1 < last /\ last < Len(name) THEN SubSeq(name, 1, last - 1) ELSE name

\* outname: OUTPUT_DIR / outname is the output path
OutName(shp) ==
    StripSuffix(PathName(shp)) \o <<".", "3", "d", ".", "g", "e", "o", "j", "s", "o", "n">>

\* f with key k set to v
Put(f, k, v) == [x \in DOMAIN f \cup {k} |-> IF x = k THEN v ELSE f[x]]

\* gdf.to_crs(epsg=4326) on one coordinate: x and y change, a third
\* component is kept
ToWgs84(c) == IF Len(c) = 3 THEN <<c[1] + 100, c[2] + 200, c[3]>>
              ELSE <<c[1] + 100, c[2] + 200>>

RECURSIVE Reproject(_)
Reproject(g) ==
    Geom(g.kind,
         [i \in 1..Len(g.coords) |-> ToWgs84(g.coords[i])],
         [r \in 1..Len(g.rings) |->
              [i \in 1..Len(g.rings[r]) |-> ToWgs84(g.rings[r][i])]],
         [i \in 1..Len(g.geoms) |-> Reproject(g.geoms[i])])

\* a row of the shapefile: its geometry and its attribute columns
Row(g, n) == [geometry |-> g, attrs |-> [id |-> n]]

\* what a .shp file holds: whether read_file can read it, its crs ("none",
\* "ok", or "bad" when to_crs fails on it), its rows, and whether json.dump
\* can serialize its attribute values
Shapefile(readable, crs, rows, serializable) ==
    [readable |-> readable, crs |-> crs, rows |-> rows, serializable |-> serializable]

HolePolygon ==
    Geom("Polygon", <<>>,
         << << <<0, 0>>, <<4, 0>>, <<4, 4>>, <<0, 4>>, <<0, 0>> >>,
            << <<1, 1>>, <<1, 2>>, <<2, 1>>, <<1, 1>> >> >>, <<>>)

\* the files of the model; a shapefile holds shapes of one type, and null
\* shapes: polygons with a crs, lines without one, an unreadable file, a
\* file whose crs cannot be transformed, points with a third component,
\* lines with a third component, a
\* null shape among points, points with an attribute json cannot serialize
Contents ==
    { Shapefile(TRUE, "ok",
                << Row(HolePolygon, 1),
                   Row(Geom("Polygon", <<>>,
                            << << <<0, 0>>, <<0, 4>>, <<4, 0>>, <<0, 0>> >> >>, <<>>), 2) >>,
                TRUE),
      Shapefile(TRUE, "none",
                << Row(LineString(<< <<0, 0>>, <<1, 1>>, <<2, 0>> >>), 1) >>, TRUE),
      Shapefile(FALSE, "none", <<>>, TRUE),
      Shapefile(TRUE, "bad", << Row(Point(<<0, 0>>), 1) >>, TRUE),
      Shapefile(TRUE, "ok", << Row(Lift3D(Point(<<3, 1>>)), 1) >>, TRUE),
      Shapefile(TRUE, "ok",
                << Row(Lift3D(LineString(<< <<0, 0>>, <<1, 0>> >>)), 1) >>, TRUE),
      Shapefile(TRUE, "ok", << Row(NoGeom, 1), Row(Point(<<0, 0>>), 2) >>, TRUE),
      Shapefile(TRUE, "ok", << Row(Point(<<3, 1>>), 1) >>, FALSE) }

ShinjukuTerminal_2out_A ==
    << "S", "h", "i", "n", "j", "u", "k", "u", "T", "e", "r", "m", "i", "n", "a", "l",
       "_", "2", "o", "u", "t", "_", "A", ".", "s", "h", "p" >>

ShpNames ==
    { ShinjukuTerminal_2out_A,
      <<"P", "l", "a", "n", ".", "s", "h", "p">>,
      <<"t", "_", "B", "1", "_", "x", ".", "s", "h", "p">> }

\* the directories under INPUT_DIR: INPUT_DIR itself and INPUT_DIR/sub
Dirs == { <<>>, << <<"s", "u", "b">> >> }

\* the paths rglob("*.shp") can yield, relative to INPUT_DIR
Paths == { d \o <<n>> : d \in Dirs, n \in ShpNames }

\* an output file: its features, and whether json.dump got to the end
OutFile(features, complete) == [features |-> features, complete |-> complete]

\* a file left in OUTPUT_DIR by an earlier run
StaleFile == OutFile(<< [geometry |-> NoGeom, properties |-> [id |-> 0]] >>, TRUE)

OutDirs ==
    { [exists |-> FALSE, files |-> <<>>],
      [exists |-> TRUE, files |-> [n \in { OutName(p) : p \in Paths } |-> StaleFile]] }

---------------------------------------------------------------------------
(* process_shp *)

\* shapely.geometry.mapping: the GeoJSON object of a geometry
RECURSIVE Mapping(_)
Mapping(g) ==
    LET json(cs, gs) == [type |-> g.kind, coordinates |-> cs, geometries |-> gs]
    IN  CASE g.kind = "Point" ->
                 json(IF g.coords = <<>> THEN <<>> ELSE g.coords[1], <<>>)
          [] g.kind \in {"LineString", "LinearRing"} -> json(g.coords, <<>>)
          [] g.kind = "Polygon" -> json(g.rings, <<>>)
          [] g.kind = "MultiPoint" ->
                 json([i \in 1..Len(g.geoms) |-> g.geoms[i].coords[1]], <<>>)
          [] g.kind = "MultiLineString" ->
                 json([i \in 1..Len(g.geoms) |-> g.geoms[i].coords], <<>>)
          [] g.kind = "MultiPolygon" ->
                 json([i \in 1..Len(g.geoms) |-> g.geoms[i].rings], <<>>)
          [] OTHER ->
                 json(<<>>, [i \in 1..Len(g.geoms) |-> Mapping(g.geoms[i])])

\* a printed line: its tag, the file whose processing printed it (<<>> for
\* a line of main itself), and the floor and elevation it reports
Line(tag, shp, lbl, zz) == [tag |-> tag, src |-> shp, floor |-> lbl, z |-> zz]

\* process_shp up to the two new columns: the floor and its elevation, then
\* read_file, to_crs when the file has a crs, add_z_to_geom on every row,
\* __floor and __z_abs on every row
LoadAndElevate(shp, file) ==
    LET r        == ResolveFloor(PathName(shp))
        rows     == IF file.crs = "ok"
                    THEN [i \in 1..Len(file.rows) |->
                              [file.rows[i] EXCEPT !.geometry = Reproject(@)]]
                    ELSE file.rows
        elevated == [i \in 1..Len(rows) |-> add_z_to_geom(rows[i].geometry, r.z_abs)]
        stage    == IF ~file.readable THEN "read"
                    ELSE IF file.crs = "bad" THEN "reproject"
                    ELSE IF \E i \in 1..Len(rows) : elevated[i] = Raised THEN "elevate"
                    ELSE "done"
    IN  [stage  |-> stage,
         warned |-> r.warned,
         label  |-> r.label,
         z_abs  |-> r.z_abs,
         rows   |-> IF stage # "done" THEN <<>>
                    ELSE [i \in 1..Len(rows) |->
                             [geometry |-> elevated[i],
                              attrs |-> Put(Put(rows[i].attrs, "__floor", r.label),
                                            "__z_abs", r.z_abs)]]]

\* the lines process_shp has printed when it ends: the warning, and [OK]
\* when it got to its end
Printed(shp, loaded, ok) ==
    (IF loaded.warned THEN << Line("WARN", shp, loaded.label, loaded.z_abs) >> ELSE <<>>)
    \o (IF ok THEN << Line("OK", shp, loaded.label, loaded.z_abs) >> ELSE <<>>)

\* process_shp from outname on: mkdir, the feature collection (mapping
\* raises on a null geometry), open(outpath, "w") and json.dump
WriteOutput(shp, od, file, loaded) ==
    LET made     == [od EXCEPT !.exists = TRUE]
        nullRow  == \E i \in 1..Len(loaded.rows) : loaded.rows[i].geometry.kind = "None"
        features == [i \in 1..Len(loaded.rows) |->
                        [type |-> "Feature",
                         geometry |-> Mapping(loaded.rows[i].geometry),
                         properties |-> loaded.rows[i].attrs]]
    IN  IF nullRow
        THEN [raised |-> TRUE, stage |-> "mapping", outdir |-> made,
              opened |-> FALSE, lines |-> Printed(shp, loaded, FALSE)]
        ELSE IF ~file.serializable
        THEN [raised |-> TRUE, stage |-> "dump",
              outdir |-> [made EXCEPT !.files = Put(@, OutName(shp), OutFile(<<>>, FALSE))],
              opened |-> TRUE, lines |-> Printed(shp, loaded, FALSE)]
        ELSE [raised |-> FALSE, stage |-> "done",
              outdir |-> [made EXCEPT !.files = Put(@, OutName(shp), OutFile(features, TRUE))],
              opened |-> TRUE, lines |-> Printed(shp, loaded, TRUE)]

\* a process_shp that makes OUTPUT_DIR before it reads the input
ProcessShp_mkdir_first(shp, od, file) ==
    LET loaded == LoadAndElevate(shp, file)
    IN  IF loaded.stage # "done"
        THEN [raised |-> TRUE, stage |-> loaded.stage,
              outdir |-> [od EXCEPT !.exists = TRUE],
              opened |-> FALSE, lines |-> Printed(shp, loaded, FALSE)]
        ELSE WriteOutput(shp, od, file, loaded)

\* process_shp(shp) with OUTPUT_DIR as od: what has become of OUTPUT_DIR,
\* whether it raised and in which stage, and what it printed
ProcessShp(shp, od, file) ==
    LET loaded == LoadAndElevate(shp, file)
    IN  IF loaded.stage # "done"
        THEN [raised |-> TRUE, stage |-> loaded.stage, outdir |-> od,
              opened |-> FALSE, lines |-> Printed(shp, loaded, FALSE)]
        ELSE WriteOutput(shp, od, file, loaded)

---------------------------------------------------------------------------
(* main *)

Inputs ==
    UNION { [S -> Contents] : S \in { T \in SUBSET Paths : Cardinality(T) <= MaxFiles } }

Init ==
    /\ pc = "start"
    /\ input \in Inputs
    /\ outdir \in OutDirs
    /\ outdir0 = outdir
    /\ todo = <<>> /\ attempts = <<>> /\ writer = <<>> /\ log = <<>>
    /\ exitCode = -1
    /\ filename = <<>> /\ label = "" /\ floor = "" /\ z_abs = 0
    /\ GeomIdle

\* main: no .shp under INPUT_DIR, [ERR] and sys.exit(1)
ExitNoInput ==
    /\ pc = "start"
    /\ DOMAIN input = {}
    /\ log' = Append(log, Line("ERR", <<>>, "", 0))
    /\ exitCode' = 1
    /\ pc' = "exit"
    /\ UNCHANGED <<input, outdir, outdir0, todo, attempts, writer, floorVars, geomVars>>

\* main: [INFO], then the for loop over sorted(shps)
EnterLoop ==
    /\ pc = "start"
    /\ DOMAIN input # {}
    /\ log' = Append(log, Line("INFO", <<>>, "", BASE_Z))
    /\ todo' = SortPaths(DOMAIN input)
    /\ pc' = "loop"
    /\ UNCHANGED <<input, outdir, outdir0, attempts, writer, exitCode, floorVars, geomVars>>

\* one pass of the loop in which process_shp returns
ProcessReturns ==
    /\ pc = "loop" /\ todo # <<>>
    /\ LET shp == Head(todo)
           res == ProcessShp(shp, outdir, input[shp])
       IN  /\ ~res.raised
           /\ outdir' = res.outdir
           /\ writer' = Put(writer, OutName(shp), shp)
           /\ log' = log \o res.lines
           /\ attempts' = Append(attempts, shp)
    /\ todo' = Tail(todo)
    /\ UNCHANGED <<pc, input, outdir0, exitCode, floorVars, geomVars>>

\* a loop that ends at the first file that fails
ProcessRaises_abort ==
    /\ pc = "loop" /\ todo # <<>>
    /\ LET shp == Head(todo)
           res == ProcessShp(shp, outdir, input[shp])
       IN  /\ res.raised
           /\ outdir' = res.outdir
           /\ writer' = IF res.opened THEN Put(writer, OutName(shp), shp) ELSE writer
           /\ log' = (log \o res.lines) \o << Line("ERR", shp, "", 0) >>
           /\ attempts' = Append(attempts, shp)
    /\ todo' = <<>>
    /\ UNCHANGED <<pc, input, outdir0, exitCode, floorVars, geomVars>>

\* one pass of the loop in which process_shp raises: except Exception, [ERR]
ProcessRaises ==
    /\ pc = "loop" /\ todo # <<>>
    /\ LET shp == Head(todo)
           res == ProcessShp(shp, outdir, input[shp])
       IN  /\ res.raised
           /\ outdir' = res.outdir
           /\ writer' = IF res.opened THEN Put(writer, OutName(shp), shp) ELSE writer
           /\ log' = (log \o res.lines) \o << Line("ERR", shp, "", 0) >>
           /\ attempts' = Append(attempts, shp)
    /\ todo' = Tail(todo)
    /\ UNCHANGED <<pc, input, outdir0, exitCode, floorVars, geomVars>>

\* an end of main that reports the failures in the exit status
ExitAfterLoop_status_of_failures ==
    /\ pc = "loop" /\ todo = <<>>
    /\ exitCode' = IF \E i \in 1..Len(log) : log[i].tag = "ERR" THEN 1 ELSE 0
    /\ pc' = "exit"
    /\ UNCHANGED <<input, outdir, outdir0, todo, attempts, writer, log, floorVars, geomVars>>

\* main returns after the loop: exit status 0
ExitAfterLoop ==
    /\ pc = "loop" /\ todo = <<>>
    /\ exitCode' = 0
    /\ pc' = "exit"
    /\ UNCHANGED <<input, outdir, outdir0, todo, attempts, writer, log, floorVars, geomVars>>

Next ==
    \/ ExitNoInput
    \/ EnterLoop
    \/ ProcessReturns
    \/ ProcessRaises
    \/ ExitAfterLoop

Spec == Init /\ [][Next]_vars

---------------------------------------------------------------------------
(* Claims about process_shp and main (Spec) *)

\* the coordinates of a GeoJSON geometry object
RECURSIVE JsonCoords(_)
JsonCoords(j) ==
    CASE j.type = "Point" ->
             IF j.coordinates = <<>> THEN {} ELSE { j.coordinates }
      [] j.type \in {"LineString", "LinearRing", "MultiPoint"} ->
             { j.coordinates[i] : i \in 1..Len(j.coordinates) }
      [] j.type \in {"Polygon", "MultiLineString"} ->
             UNION { { j.coordinates[r][i] : i \in 1..Len(j.coordinates[r]) } :
                     r \in 1..Len(j.coordinates) }
      [] j.type = "MultiPolygon" ->
             UNION { UNION { { j.coordinates[q][r][i] :
                               i \in 1..Len(j.coordinates[q][r]) } :
                             r \in 1..Len(j.coordinates[q]) } :
                     q \in 1..Len(j.coordinates) }
      [] OTHER -> UNION { JsonCoords(j.geometries[i]) : i \in 1..Len(j.geometries) }

\* the output files this run has opened
WrittenNames == DOMAIN writer

\* C4: every feature of a file written by process_shp has a __floor that is
\* a key of FLOOR_OFFSETS and a __z_abs equal to BASE_Z + FLOOR_OFFSETS[__floor],
\* and that value is the third component of every coordinate of its geometry
\* (the elevation given to add_z_to_geom); ShinjukuTerminal_2out_A.shp gets
\* __floor "2out" and __z_abs BASE_Z + FLOOR_OFFSETS["2out"].
C4_FloorAndElevationOfFeatures ==
    \A n \in WrittenNames :
        \A i \in 1..Len(outdir.files[n].features) :
            LET ft == outdir.files[n].features[i]
            IN  /\ ft.properties["__floor"] \in DOMAIN FLOOR_OFFSETS
                /\ ft.properties["__z_abs"] =
                       BASE_Z + FLOOR_OFFSETS[ft.properties["__floor"]]
                /\ \A c \in JsonCoords(ft.geometry) :
                       Len(c) = 3 /\ c[3] = ft.properties["__z_abs"]
                /\ PathName(writer[n]) = ShinjukuTerminal_2out_A =>
                       /\ ft.properties["__floor"] = "2out"
                       /\ ft.properties["__z_abs"] = BASE_Z + FLOOR_OFFSETS["2out"]

\* ShinjukuTerminal_2out_A.shp has been written, with a polygon feature
C4_Witness ==
    \E n \in WrittenNames :
        /\ PathName(writer[n]) = ShinjukuTerminal_2out_A
        /\ outdir.files[n].complete
        /\ \E i \in 1..Len(outdir.files[n].features) :
               /\ outdir.files[n].features[i].geometry.type = "Polygon"
               /\ outdir.files[n].features[i].properties["__floor"] = "2out"
               /\ outdir.files[n].features[i].properties["__z_abs"] = 886

NoFailure == \A i \in 1..Len(log) : log[i].tag # "ERR"

\* C5: after a run in which every file was processed successfully, every
\* input file has an output file of its own: the output named after it was
\* written by its run and by no later one, and there are as many output
\* names as input files.
C5_OneOutputPerInput ==
    (pc = "exit" /\ NoFailure) =>
        /\ \A p \in DOMAIN input :
               OutName(p) \in DOMAIN outdir.files /\ writer[OutName(p)] = p
        /\ Cardinality({ OutName(p) : p \in DOMAIN input }) = Cardinality(DOMAIN input)

Attempted == { attempts[i] : i \in 1..Len(attempts) }

\* the [OK] and [ERR] lines of the files, in the order they were printed
ResultLines == SelectSeq(log, LAMBDA l : l.tag \in {"OK", "ERR"} /\ l.src # <<>>)

\* process_shp cannot get to its end on this file: it cannot be read or
\* reprojected, a line or polygon of it has a third component, it has a
\* null shape, or an attribute value json cannot serialize
Fails(file) ==
    \/ ~file.readable
    \/ file.crs = "bad"
    \/ \E i \in 1..Len(file.rows) : HasLine3D(file.rows[i].geometry)
    \/ \E i \in 1..Len(file.rows) : file.rows[i].geometry.kind = "None"
    \/ ~file.serializable

\* C6: process_shp is attempted once on every discovered file, in sorted path
\* order, whichever files fail; every attempted file has exactly one result
\* line, [ERR] with its path when it failed and [OK] otherwise.
C6_EveryFileAttemptedOnce ==
    /\ \A i, j \in 1..Len(attempts) : i < j => PathLess(attempts[i], attempts[j])
    /\ Attempted \subseteq DOMAIN input
    /\ \A p \in DOMAIN input \ Attempted : \A a \in Attempted : PathLess(a, p)
    /\ Len(ResultLines) = Len(attempts)
    /\ \A i \in 1..Len(attempts) :
           /\ ResultLines[i].src = attempts[i]
           /\ ResultLines[i].tag = IF Fails(input[attempts[i]]) THEN "ERR" ELSE "OK"
    /\ pc = "exit" => Attempted = DOMAIN input

\* a run has ended in which the first file failed and the second was written
C6_Witness ==
    /\ pc = "exit"
    /\ Len(attempts) = 2
    /\ ResultLines[1].tag = "ERR" /\ ResultLines[2].tag = "OK"

\* C7: with no input file main prints an error and exits with status 1,
\* having processed no file and left OUTPUT_DIR as it was (not created);
\* with at least one input file it exits with status 0, whichever files
\* failed; it has no exit status before it exits.
C7_ExitStatus ==
    /\ exitCode = 1 =>
           /\ DOMAIN input = {} /\ attempts = <<>> /\ outdir = outdir0
           /\ log = << Line("ERR", <<>>, "", 0) >>
    /\ pc = "exit" => exitCode = (IF DOMAIN input = {} THEN 1 ELSE 0)
    /\ pc # "exit" => exitCode = -1

\* main has exited with status 1 and OUTPUT_DIR still does not exist
C7_Witness ==
    /\ pc = "exit" /\ exitCode = 1
    /\ ~outdir0.exists /\ ~outdir.exists

\* a run has ended with status 0 in which every file failed
C7_AllFailedReached ==
    /\ pc = "exit" /\ exitCode = 0
    /\ Len(attempts) = 2
    /\ \A i \in 1..Len(ResultLines) : ResultLines[i].tag = "ERR"

\* the file cannot be read, cannot be reprojected, or cannot be elevated
FailsBeforeWriting(file) ==
    \/ ~file.readable
    \/ file.crs = "bad"
    \/ \E i \in 1..Len(file.rows) : HasLine3D(file.rows[i].geometry)

\* C10: a pass of the loop over a file that fails while it is read,
\* reprojected or elevated leaves OUTPUT_DIR, and every file in it, as it was
\* (so OUTPUT_DIR is created and the output file opened only after the three
\* stages succeeded), and prints [ERR] for the file.
C10_EarlyFailureLeavesOutput ==
    [][ (pc = "loop" /\ todo # <<>> /\ FailsBeforeWriting(input[Head(todo)]))
            => /\ outdir' = outdir
               /\ writer' = writer
               /\ log' = Append(log, Line("ERR", Head(todo), "", 0)) ]_vars

\* the first file failed in one of the three stages, OUTPUT_DIR still does
\* not exist
C10_Witness ==
    /\ Len(attempts) = 1
    /\ FailsBeforeWriting(input[attempts[1]])
    /\ ~outdir0.exists /\ ~outdir.exists

=============================================================================
